---- MODULE Spec2Model ----
(***************************************************************************)
(* A model of the cache-aside read path of backend/cache.py: the           *)
(* InMemoryCache fallback store, the CacheManager gateway with its lazy    *)
(* connect, and the content cache helpers (get_cache_key, get_cache_ttl,   *)
(* get_cached_content, set_cached_content, invalidate_content_cache).      *)
(*                                                                         *)
(* Python strings are TLA+ strings, Python values are records tagged with  *)
(* their type name in the field t, and a call that may raise returns a     *)
(* record whose field exc says whether it raised.                          *)
(***************************************************************************)
EXTENDS Integers, Sequences, FiniteSets, TLC

VARIABLES
    cache_enabled,  \* CacheManager.cache_enabled
    redis_client,   \* CacheManager.redis_client: 0 is None, else an index of heap
    heap,           \* the backend objects created so far, in creation order
    redis_db,       \* the keyspace of the remote Redis server
    now,            \* datetime.now(), in seconds
    ncalls,         \* number of completed calls
    last,           \* the record of the last completed call
    th,             \* per-thread program counter and locals
    keyin,          \* the arguments drawn for get_cache_key
    keyout,         \* the keys get_cache_key returned for them
    store           \* the document store: collection name -> list of documents

vars == <<cache_enabled, redis_client, heap, redis_db, now, ncalls, last, th, keyin, keyout, store>>

----------------------------------------------------------------------------
(* Bounds of the model *)

MaxCalls == 3
MaxNow == 3600
MaxKeyCalls == 2
MaxThreadCalls == 2
MaxMemNow == 1800
TickSteps == {1800}

----------------------------------------------------------------------------
(* Python values *)

PyNone == [t |-> "NoneType"]
PyBool(b) == [t |-> "bool", b |-> b]
PyInt(n) == [t |-> "int", n |-> n]
PyStr(s) == [t |-> "str", s |-> s]
PyList(items) == [t |-> "list", items |-> items]
PyTuple(items) == [t |-> "tuple", items |-> items]
\* a dict as the sequence of its items [k, v] in insertion order
PyDict(items) == [t |-> "dict", items |-> items]
\* a datetime object; iso is what str() gives for it
PyDatetime(iso) == [t |-> "datetime", iso |-> iso]
\* a list that contains itself
PyCyclic == [t |-> "cyclic"]

\* bool(v) for the values the code tests for truth
Truthy(v) ==
    CASE v.t = "NoneType" -> FALSE
      [] v.t = "bool" -> v.b
      [] v.t = "int" -> v.n # 0
      [] v.t = "str" -> v.s # ""
      [] v.t = "list" -> v.items # <<>>
      [] v.t = "tuple" -> v.items # <<>>
      [] v.t = "dict" -> v.items # <<>>
      [] OTHER -> TRUE

\* the outcome of a call: it returned ret, or it raised
Return(v) == [exc |-> FALSE, ret |-> v]
Raise == [exc |-> TRUE]

----------------------------------------------------------------------------
(* Strings *)

Contains(s, c) == \E i \in 1..Len(s) : SubSeq(s, i, i) = c

RECURSIVE Replace(_, _, _)
\* s.replace(c, r) for a one-character c
Replace(s, c, r) ==
    IF s = "" THEN ""
    ELSE (IF SubSeq(s, 1, 1) = c THEN r ELSE SubSeq(s, 1, 1))
             \o Replace(SubSeq(s, 2, Len(s)), c, r)

StartsWith(s, p) == Len(p) <= Len(s) /\ SubSeq(s, 1, Len(p)) = p

RECURSIVE Join(_, _)
\* sep.join(parts)
Join(sep, parts) ==
    IF parts = <<>> THEN ""
    ELSE IF Len(parts) = 1 THEN parts[1]
    ELSE parts[1] \o sep \o Join(sep, Tail(parts))

----------------------------------------------------------------------------
(* json.dumps(value, default=str) and json.loads(text) *)

\* the JSON name of a dict key: a str as it is, an int, bool or None as text
json_key(k) ==
    CASE k.t = "str" -> k.s
      [] k.t = "int" -> ToString(k.n)
      [] k.t = "bool" -> IF k.b THEN "true" ELSE "false"
      [] k.t = "NoneType" -> "null"

RECURSIVE json_encode(_)
\* the JSON text of a value json can encode; default=str turns a datetime
\* into the text of its str()
json_encode(v) ==
    CASE v.t = "NoneType" -> "null"
      [] v.t = "bool" -> IF v.b THEN "true" ELSE "false"
      [] v.t = "int" -> ToString(v.n)
      [] v.t = "str" -> "\"" \o v.s \o "\""
      [] v.t = "datetime" -> "\"" \o v.iso \o "\""
      [] v.t \in {"list", "tuple"} ->
            "[" \o Join(", ", [i \in 1..Len(v.items) |-> json_encode(v.items[i])]) \o "]"
      [] v.t = "dict" ->
            "{" \o Join(", ", [i \in 1..Len(v.items) |->
                        "\"" \o json_key(v.items[i].k) \o "\": "
                            \o json_encode(v.items[i].v)]) \o "}"

RECURSIVE Encodable(_)
Encodable(v) ==
    CASE v.t = "cyclic" -> FALSE
      [] v.t \in {"list", "tuple"} -> \A i \in 1..Len(v.items) : Encodable(v.items[i])
      [] v.t = "dict" ->
            \A i \in 1..Len(v.items) :
                /\ v.items[i].k.t \in {"str", "int", "bool", "NoneType"}
                /\ Encodable(v.items[i].v)
      [] OTHER -> TRUE

json_dumps(v) == IF Encodable(v) THEN Return(json_encode(v)) ELSE Raise

\* the values json.loads can return, up to one level of nesting
JsonScalars == {PyNone, PyBool(TRUE), PyInt(1), PyStr("a"), PyStr("2024-01-01 00:00:00")}
\* the objects json.loads can return: their keys are strings
JsonObjects ==
    LET flat == {PyDict(<<>>)} \cup {PyDict(<<[k |-> PyStr(n), v |-> PyInt(1)]>>) : n \in {"id", "1"}}
    IN  flat \cup {PyDict(<<[k |-> PyStr("id"), v |-> PyInt(1)], [k |-> PyStr("meta"), v |-> d]>>) : d \in flat}
JsonValues ==
    JsonScalars \cup {PyList(<<>>)} \cup {PyList(<<x>>) : x \in JsonScalars \cup JsonObjects}
        \cup {PyList(<<x, y>>) : x \in {PyInt(1)}, y \in JsonScalars}
        \cup JsonObjects

\* as json_loads, but the text is returned as it is
json_loads_Raw(text) == Return(PyStr(text))

json_loads(text) ==
    IF \E d \in JsonValues : json_encode(d) = text
    THEN Return(CHOOSE d \in JsonValues : json_encode(d) = text)
    ELSE Raise

----------------------------------------------------------------------------
(* Cache keys and the TTL table *)

\* kwargs is the keyword mapping as the sequence of its items in insertion
\* order, which is the order kwargs.items() yields
get_cache_key(prefix, identifier, kwargs) ==
    LET key_parts0 == <<prefix>>
        key_parts1 == IF identifier # "" THEN Append(key_parts0, identifier) ELSE key_parts0
        key_parts2 == key_parts1 \o [i \in 1..Len(kwargs) |-> kwargs[i].k \o ":" \o kwargs[i].v]
    IN  Join(":", key_parts2)

CACHE_TTL_CONFIG ==
    [ hero_content |-> 3600, site_settings |-> 7200, navigation |-> 7200,
      footer_sections |-> 7200, features |-> 1800, testimonials |-> 1800,
      process_steps |-> 1800, specifications |-> 1800, newsletter_signups |-> 300,
      contact_forms |-> 300, page_views |-> 60, search_results |-> 600 ]

get_cache_ttl(content_type) ==
    IF content_type \in DOMAIN CACHE_TTL_CONFIG THEN CACHE_TTL_CONFIG[content_type] ELSE 3600

default_ttl == 3600

----------------------------------------------------------------------------
(* InMemoryCache: every method as one step from the object self to the     *)
(* object after the call (field self) and what the call returns (field ret)*)

EmptyDict == <<>>
DictSet(d, k, v) == [x \in (DOMAIN d) \cup {k} |-> IF x = k THEN v ELSE d[x]]
DictDel(d, k) == [x \in (DOMAIN d) \ {k} |-> d[x]]

InMemoryCache_init ==
    [kind |-> "InMemoryCache", cache |-> EmptyDict, expiry |-> EmptyDict,
     stats |-> [hits |-> 0, misses |-> 0, sets |-> 0, deletes |-> 0]]

\* as InMemoryCache_delete, but the expiry of the key stays
InMemoryCache_delete_KeepExpiry(self, key) ==
    [self |-> [self EXCEPT !.cache = DictDel(@, key),
                           !.stats.deletes = @ + 1],
     ret |-> PyNone]

InMemoryCache_delete(self, key) ==
    [self |-> [self EXCEPT !.cache = DictDel(@, key),
                           !.expiry = DictDel(@, key),
                           !.stats.deletes = @ + 1],
     ret |-> PyNone]

\* as InMemoryCache_get, but an entry is still served at its expiry time
InMemoryCache_get_Late(self, key, t) ==
    IF key \in DOMAIN self.cache
    THEN IF key \notin DOMAIN self.expiry \/ t <= self.expiry[key]
         THEN [self |-> [self EXCEPT !.stats.hits = @ + 1], ret |-> PyStr(self.cache[key])]
         ELSE [self |-> [InMemoryCache_delete(self, key).self EXCEPT !.stats.misses = @ + 1],
               ret |-> PyNone]
    ELSE [self |-> [self EXCEPT !.stats.misses = @ + 1], ret |-> PyNone]

InMemoryCache_get(self, key, t) ==
    IF key \in DOMAIN self.cache
    THEN IF key \notin DOMAIN self.expiry \/ t < self.expiry[key]
         THEN [self |-> [self EXCEPT !.stats.hits = @ + 1], ret |-> PyStr(self.cache[key])]
         ELSE [self |-> [InMemoryCache_delete(self, key).self EXCEPT !.stats.misses = @ + 1],
               ret |-> PyNone]
    ELSE [self |-> [self EXCEPT !.stats.misses = @ + 1], ret |-> PyNone]

\* as InMemoryCache_set, but the set is not counted
InMemoryCache_set_NoCount(self, key, value, ttl, t) ==
    [self |-> [self EXCEPT !.cache = DictSet(@, key, value),
                           !.expiry = IF Truthy(ttl) THEN DictSet(@, key, t + ttl.n) ELSE @],
     ret |-> PyNone]

\* ttl is a Python value: None or an int
InMemoryCache_set(self, key, value, ttl, t) ==
    [self |-> [self EXCEPT !.cache = DictSet(@, key, value),
                           !.expiry = IF Truthy(ttl) THEN DictSet(@, key, t + ttl.n) ELSE @,
                           !.stats.sets = @ + 1],
     ret |-> PyNone]

RECURSIVE DeleteAll(_, _)
\* for key in keys_to_delete: self.delete(key)
DeleteAll(self, keys) ==
    IF keys = {} THEN self
    ELSE LET key == CHOOSE k \in keys : TRUE
         IN  DeleteAll(InMemoryCache_delete(self, key).self, keys \ {key})

\* as InMemoryCache_clear_pattern, but the '*' stays in the prefix
InMemoryCache_clear_pattern_Literal(self, pattern) ==
    LET keys_to_delete ==
            IF Contains(pattern, "*")
            THEN {k \in DOMAIN self.cache : StartsWith(k, pattern)}
            ELSE {k \in DOMAIN self.cache : k = pattern}
    IN  [self |-> DeleteAll(self, keys_to_delete), ret |-> PyInt(Cardinality(keys_to_delete))]

InMemoryCache_clear_pattern(self, pattern) ==
    LET keys_to_delete ==
            IF Contains(pattern, "*")
            THEN LET prefix == Replace(pattern, "*", "")
                 IN  {k \in DOMAIN self.cache : StartsWith(k, prefix)}
            ELSE {k \in DOMAIN self.cache : k = pattern}
    IN  [self |-> DeleteAll(self, keys_to_delete), ret |-> PyInt(Cardinality(keys_to_delete))]

\* hit_rate is the fraction hits / (hits + misses), kept as numerator and
\* denominator, or the int 0 when there were no reads
InMemoryCache_get_stats(self) ==
    [self |-> self,
     ret |-> [t |-> "dict",
              cache_size |-> Cardinality(DOMAIN self.cache),
              cache_hits |-> self.stats.hits,
              cache_misses |-> self.stats.misses,
              cache_sets |-> self.stats.sets,
              cache_deletes |-> self.stats.deletes,
              hit_rate |-> IF self.stats.hits + self.stats.misses > 0
                           THEN <<self.stats.hits, self.stats.hits + self.stats.misses>>
                           ELSE <<0, 1>>]]

----------------------------------------------------------------------------
(* The remote Redis server, as the redis client's methods see it.  db maps *)
(* a key to its text and the time it expires at.                           *)

\* closed: the client's connection was closed
Redis_init == [kind |-> "Redis", pinged |-> FALSE, closed |-> FALSE]

\* exp 0: the key was written without an expiration
Redis_live(db, t) == {k \in DOMAIN db : db[k].exp = 0 \/ t < db[k].exp}

Redis_get(db, key, t) ==
    IF key \in Redis_live(db, t) THEN PyStr(db[key].val) ELSE PyNone

\* SETEX key ttl value; the server rejects a ttl that is not positive
Redis_setex(db, key, ttl, value, t) ==
    IF ttl > 0 THEN Return(DictSet(db, key, [val |-> value, exp |-> t + ttl])) ELSE Raise

RECURSIVE GlobMatch(_, _)
\* glob matching of KEYS for patterns made of literal characters and *
GlobMatch(pattern, s) ==
    IF pattern = "" THEN s = ""
    ELSE IF SubSeq(pattern, 1, 1) = "*"
         THEN \/ GlobMatch(SubSeq(pattern, 2, Len(pattern)), s)
              \/ s # "" /\ GlobMatch(pattern, SubSeq(s, 2, Len(s)))
         ELSE /\ s # ""
              /\ SubSeq(pattern, 1, 1) = SubSeq(s, 1, 1)
              /\ GlobMatch(SubSeq(pattern, 2, Len(pattern)), SubSeq(s, 2, Len(s)))

Redis_keys(db, pattern, t) == {k \in Redis_live(db, t) : GlobMatch(pattern, k)}

\* DEL key [key ...] returns the number of keys removed
Redis_delete(db, keys, t) ==
    [db |-> [x \in (DOMAIN db) \ keys |-> db[x]],
     ret |-> PyInt(Cardinality(keys \cap Redis_live(db, t)))]

Redis_info ==
    [used_memory_human |-> "1.00M", connected_clients |-> 1,
     total_commands_processed |-> 0, keyspace_hits |-> 0, keyspace_misses |-> 0]

----------------------------------------------------------------------------
(* CacheManager.  g is the gateway and what it reaches:                    *)
(*   [cache_enabled, redis_client, heap, redis_db].                        *)
(* e is what the environment does during the call: e.from_url and e.ping   *)
(* say whether redis.from_url and ping return (TRUE) or raise, e.call      *)
(* whether the call to the remote server returns or raises.                *)

Gateway == [cache_enabled |-> cache_enabled, redis_client |-> redis_client,
            heap |-> heap, redis_db |-> redis_db]

New(g, obj) == [g EXCEPT !.heap = Append(@, obj), !.redis_client = Len(g.heap) + 1]

\* as CacheManager_connect, but a failed ping leaves the remote client in place
CacheManager_connect_NoFallback(g, e) ==
    IF e.from_url
    THEN LET g1 == New(g, Redis_init)
         IN  IF e.ping
             THEN [g1 EXCEPT !.heap[g1.redis_client].pinged = TRUE]
             ELSE g1
    ELSE New(g, InMemoryCache_init)

CacheManager_connect(g, e) ==
    IF e.from_url
    THEN LET g1 == New(g, Redis_init)
         IN  IF e.ping
             THEN [g1 EXCEPT !.heap[g1.redis_client].pinged = TRUE]
             ELSE New(g1, InMemoryCache_init)
    ELSE New(g, InMemoryCache_init)

Backend(g) == g.heap[g.redis_client]
IsRedis(obj) == obj.kind = "Redis"
SetBackend(g, obj) == [g EXCEPT !.heap[g.redis_client] = obj]

\* as EnsureConnected, but a gateway on the fallback store connects again
EnsureConnected_Retry(g, e) ==
    IF g.redis_client = 0 \/ ~IsRedis(Backend(g)) THEN CacheManager_connect(g, e) ELSE g

\* if not self.redis_client: self.connect()
EnsureConnected(g, e) == IF g.redis_client = 0 THEN CacheManager_connect(g, e) ELSE g

\* the outcome of a method body: it ran to its return (exc FALSE) or an
\* exception left it; g is the state it leaves either way
Done(g, ret) == [exc |-> FALSE, g |-> g, ret |-> ret]
Threw(g) == [exc |-> TRUE, g |-> g]

\* as TryExcept, but the exception is not caught
TryExcept_Propagates(body, on_error) ==
    IF body.exc
    THEN [g |-> body.g, ret |-> on_error, failed |-> TRUE, raised |-> TRUE]
    ELSE [g |-> body.g, ret |-> body.ret, failed |-> FALSE, raised |-> FALSE]

\* try: body / except Exception: return on_error
TryExcept(body, on_error) ==
    IF body.exc
    THEN [g |-> body.g, ret |-> on_error, failed |-> TRUE, raised |-> FALSE]
    ELSE [g |-> body.g, ret |-> body.ret, failed |-> FALSE, raised |-> FALSE]

\* as Returned, but the gateway activates a store before it returns
Returned_Connects(g, ret) ==
    [g |-> IF g.redis_client = 0 THEN New(g, InMemoryCache_init) ELSE g,
     ret |-> ret, failed |-> FALSE, raised |-> FALSE]

\* a return before the try block
Returned(g, ret) == [g |-> g, ret |-> ret, failed |-> FALSE, raised |-> FALSE]

\* value = self.redis_client.get(key)
BackendGet(g, key, t, e) ==
    IF IsRedis(Backend(g))
    THEN IF e.call THEN Done(g, Redis_get(g.redis_db, key, t)) ELSE Threw(g)
    ELSE LET r == InMemoryCache_get(Backend(g), key, t)
         IN  Done(SetBackend(g, r.self), r.ret)

CacheManager_get(g, key, t, e) ==
    IF ~g.cache_enabled THEN Returned(g, PyNone)
    ELSE LET g1 == EnsureConnected(g, e)
             value == BackendGet(g1, key, t, e)
             body == IF value.exc THEN Threw(value.g)
                     ELSE IF Truthy(value.ret)
                          THEN LET loaded == json_loads(value.ret.s)
                               IN  IF loaded.exc THEN Threw(value.g)
                                   ELSE Done(value.g, loaded.ret)
                          ELSE Done(value.g, PyNone)
         IN  TryExcept(body, PyNone)

CacheManager_set(g, key, value, ttl, t, e) ==
    IF ~g.cache_enabled THEN Returned(g, PyBool(FALSE))
    ELSE LET g1 == EnsureConnected(g, e)
             ttl1 == IF Truthy(ttl) THEN ttl ELSE PyInt(default_ttl)
             serialized_value == json_dumps(value)
             body ==
                IF serialized_value.exc THEN Threw(g1)
                ELSE IF IsRedis(Backend(g1))
                     THEN LET r == Redis_setex(g1.redis_db, key, ttl1.n, serialized_value.ret, t)
                          IN  IF e.call /\ ~r.exc
                              THEN Done([g1 EXCEPT !.redis_db = r.ret], PyBool(TRUE))
                              ELSE Threw(g1)
                     ELSE LET r == InMemoryCache_set(Backend(g1), key, serialized_value.ret, ttl1, t)
                          IN  Done(SetBackend(g1, r.self), PyBool(TRUE))
         IN  TryExcept(body, PyBool(FALSE))

CacheManager_delete(g, key, t, e) ==
    IF ~g.cache_enabled THEN Returned(g, PyBool(FALSE))
    ELSE LET g1 == EnsureConnected(g, e)
             body ==
                IF IsRedis(Backend(g1))
                THEN IF e.call
                     THEN Done([g1 EXCEPT !.redis_db = Redis_delete(@, {key}, t).db], PyBool(TRUE))
                     ELSE Threw(g1)
                ELSE Done(SetBackend(g1, InMemoryCache_delete(Backend(g1), key).self), PyBool(TRUE))
         IN  TryExcept(body, PyBool(FALSE))

CacheManager_clear_pattern(g, pattern, t, e) ==
    IF ~g.cache_enabled THEN Returned(g, PyInt(0))
    ELSE LET g1 == EnsureConnected(g, e)
             body ==
                IF IsRedis(Backend(g1))
                THEN IF e.call
                     THEN LET keys == Redis_keys(g1.redis_db, pattern, t)
                              r == Redis_delete(g1.redis_db, keys, t)
                          IN  IF keys # {}
                              THEN Done([g1 EXCEPT !.redis_db = r.db], r.ret)
                              ELSE Done(g1, PyInt(0))
                     ELSE Threw(g1)
                ELSE LET r == InMemoryCache_clear_pattern(Backend(g1), pattern)
                     IN  Done(SetBackend(g1, r.self), r.ret)
         IN  TryExcept(body, PyInt(0))

CacheManager_get_stats(g, e) ==
    LET g1 == EnsureConnected(g, e)
        body ==
            IF IsRedis(Backend(g1))
            THEN IF e.call
                 THEN Done(g1, [t |-> "dict",
                                used_memory |-> Redis_info.used_memory_human,
                                connected_clients |-> Redis_info.connected_clients,
                                total_commands_processed |-> Redis_info.total_commands_processed,
                                cache_hits |-> Redis_info.keyspace_hits,
                                cache_misses |-> Redis_info.keyspace_misses])
                 ELSE Threw(g1)
            ELSE Done(g1, InMemoryCache_get_stats(Backend(g1)).ret)
    IN  TryExcept(body, [t |-> "dict", error |-> "ConnectionError"])

----------------------------------------------------------------------------
(* Content cache helpers *)

get_cached_content(g, content_type, filters, t, e) ==
    LET cache_key == get_cache_key("content:" \o content_type, "", filters)
    IN  CacheManager_get(g, cache_key, t, e)

set_cached_content(g, content_type, content, filters, ttl, t, e) ==
    LET cache_key == get_cache_key("content:" \o content_type, "", filters)
    IN  CacheManager_set(g, cache_key, content, ttl, t, e)

\* an invalidation that clears the content of every type
invalidate_content_cache_All(g, content_type, t, e) ==
    CacheManager_clear_pattern(g, "content:*", t, e)

invalidate_content_cache(g, content_type, t, e) ==
    LET pattern == "content:" \o content_type \o ":*"
    IN  CacheManager_clear_pattern(g, pattern, t, e)

----------------------------------------------------------------------------
(* Inputs *)

Keys == {"content:features:category:a", "content:hero_content"}
Patterns == {"content:features:*", "content:hero_content"}
Values == {PyList(<<PyInt(1), PyStr("a")>>), PyCyclic}
TTLs == {PyNone, PyInt(0), PyInt(1800)}
\* a text some other client of the server stored, which is not JSON
ForeignText == "{oops"

\* what the environment can do during one call on gateway g
Envs(g) ==
    {e \in [from_url : BOOLEAN, ping : BOOLEAN, call : BOOLEAN] :
        /\ g.redis_client # 0 => e.from_url /\ e.ping
        /\ ~e.from_url => e.ping
        /\ (g.redis_client # 0 /\ ~IsRedis(Backend(g))) => e.call
        /\ (g.redis_client = 0 /\ ~(e.from_url /\ e.ping)) => e.call}

NoThreads == <<>>
NoKeys == <<>>
\* no document store is in use
NoStore == <<>>

\* the record of a completed call: what was asked (args), what the
\* environment did (env), the gateway before it, and what came back
Call(op, args, g, r, e) ==
    [op |-> op, args |-> args, env |-> e, at |-> now,
     enabled |-> g.cache_enabled, pre_client |-> g.redis_client,
     pre |-> IF g.redis_client = 0 THEN PyNone ELSE Backend(g),
     ret |-> r.ret, failed |-> r.failed, raised |-> r.raised]

\* the effect of a completed call on the gateway state
Complete(c, r) ==
    /\ ncalls < MaxCalls
    /\ ncalls' = ncalls + 1
    /\ last' = c
    /\ redis_client' = r.g.redis_client
    /\ heap' = r.g.heap
    /\ redis_db' = r.g.redis_db
    /\ UNCHANGED <<cache_enabled, now, th, keyin, keyout, store>>

----------------------------------------------------------------------------
(* The gateway used by one caller at a time: every call is one step *)

Init ==
    /\ cache_enabled = TRUE
    /\ redis_client = 0
    /\ heap = <<>>
    /\ redis_db \in {EmptyDict, [k \in {"content:hero_content"} |-> [val |-> ForeignText, exp |-> 0]]}
    /\ now = 0
    /\ ncalls = 0
    /\ last = [op |-> "none"]
    /\ th = NoThreads
    /\ keyin = NoKeys
    /\ keyout = NoKeys
    /\ store = NoStore

Get ==
    \E key \in Keys, e \in Envs(Gateway) :
        LET r == CacheManager_get(Gateway, key, now, e)
        IN  Complete(Call("get", [key |-> key], Gateway, r, e), r)

Set ==
    \E key \in Keys, value \in Values, ttl \in TTLs, e \in Envs(Gateway) :
        LET r == CacheManager_set(Gateway, key, value, ttl, now, e)
        IN  Complete(Call("set", [key |-> key, value |-> value, ttl |-> ttl], Gateway, r, e), r)

Delete ==
    \E key \in Keys, e \in Envs(Gateway) :
        LET r == CacheManager_delete(Gateway, key, now, e)
        IN  Complete(Call("delete", [key |-> key], Gateway, r, e), r)

ClearPattern ==
    \E pattern \in Patterns, e \in Envs(Gateway) :
        LET r == CacheManager_clear_pattern(Gateway, pattern, now, e)
        IN  Complete(Call("clear_pattern", [pattern |-> pattern], Gateway, r, e), r)

GetStats ==
    \E e \in Envs(Gateway) :
        LET r == CacheManager_get_stats(Gateway, e)
        IN  Complete(Call("get_stats", <<>>, Gateway, r, e), r)

\* the application switches caching off or on
SetCacheEnabled ==
    /\ cache_enabled' = ~cache_enabled
    /\ UNCHANGED <<redis_client, heap, redis_db, now, ncalls, last, th, keyin, keyout, store>>

\* time passes
Tick ==
    \E d \in TickSteps :
        /\ now + d <= MaxNow
        /\ now' = now + d
        /\ UNCHANGED <<cache_enabled, redis_client, heap, redis_db, ncalls, last, th, keyin, keyout, store>>

Next == Get \/ Set \/ Delete \/ ClearPattern \/ GetStats \/ SetCacheEnabled \/ Tick

Spec == Init /\ [][Next]_vars

----------------------------------------------------------------------------
(* Properties of the gateway used by one caller at a time *)

Connected == redis_client # 0
OnFallback == Connected /\ ~IsRedis(heap[redis_client])
OnRemote == Connected /\ IsRedis(heap[redis_client])
Called(op) == last.op = op

\* C1: every public CacheManager operation returns a value and lets no
\* exception out, whatever the backend does; when something failed inside,
\* get returns None, set and delete return False and clear_pattern returns 0.
C1_Total ==
    last.op \in {"get", "set", "delete", "clear_pattern", "get_stats"} =>
        /\ ~last.raised
        /\ last.failed =>
            /\ Called("get") => last.ret = PyNone
            /\ Called("set") => last.ret = PyBool(FALSE)
            /\ Called("delete") => last.ret = PyBool(FALSE)
            /\ Called("clear_pattern") => last.ret = PyInt(0)

\* a get that found a text that is not JSON on the remote server, and a set
\* whose remote call raised
C1_Witness ==
    /\ Called("get") /\ last.failed /\ last.ret = PyNone
    /\ OnRemote /\ last.env.call
    /\ last.args.key \in DOMAIN redis_db /\ redis_db[last.args.key].val = ForeignText


\* C5: on the fallback store a get at a time now >= expires_at of the key
\* returns absent, removes the key from the value map and the expiry map and
\* counts a miss and no hit; a get before expires_at returns the stored value
\* and counts a hit.
C5_Expiry ==
    ( /\ Called("get") /\ last.enabled
      /\ last.pre_client # 0 /\ ~IsRedis(last.pre)
      /\ last.args.key \in DOMAIN last.pre.cache
      /\ last.args.key \in DOMAIN last.pre.expiry ) =>
        LET key == last.args.key
            post == heap[redis_client]
        IN  IF last.at >= last.pre.expiry[key]
            THEN /\ last.ret = PyNone
                 /\ key \notin DOMAIN post.cache
                 /\ key \notin DOMAIN post.expiry
                 /\ post.stats.misses = last.pre.stats.misses + 1
                 /\ post.stats.hits = last.pre.stats.hits
            ELSE /\ last.ret = json_loads(last.pre.cache[key]).ret
                 /\ post.stats.hits = last.pre.stats.hits + 1
                 /\ post.stats.misses = last.pre.stats.misses
                 /\ key \in DOMAIN post.cache

\* a get of an entry at exactly its expiry time
C5_Witness ==
    /\ Called("get") /\ last.enabled
    /\ last.pre_client # 0 /\ ~IsRedis(last.pre)
    /\ last.args.key \in DOMAIN last.pre.expiry
    /\ last.at = last.pre.expiry[last.args.key]
    /\ last.ret = PyNone

CallStep == ncalls' = ncalls + 1

\* C6: when from_url or ping fails at first use the gateway activates an
\* InMemoryCache; from then on every call is served by that same store, a set
\* of a value json can encode returns True, a get that follows it at once
\* for the same key returns the value set, and delete returns True.
C6_FallbackStep ==
    /\ ( /\ CallStep /\ redis_client = 0
         /\ last'.enabled \/ last'.op = "get_stats"
         /\ ~(last'.env.from_url /\ last'.env.ping) ) => OnFallback'
    /\ (CallStep /\ OnFallback) =>
            /\ redis_client' = redis_client
            /\ OnFallback'
            /\ Len(heap') = Len(heap)
    /\ (CallStep /\ OnFallback' /\ last'.enabled) =>
            /\ (last'.op = "set" /\ Encodable(last'.args.value)) => last'.ret = PyBool(TRUE)
            /\ last'.op = "delete" => last'.ret = PyBool(TRUE)
    /\ ( /\ CallStep /\ OnFallback
         /\ Called("set") /\ last.ret = PyBool(TRUE)
         /\ last'.op = "get" /\ last'.enabled
         /\ last'.args.key = last.args.key
         /\ last'.at = last.at ) => last'.ret = last.args.value

\* C6: every step of the gateway keeps the fallback contract above
C6_Fallback == [][C6_FallbackStep]_vars

\* the ping failed at first use, and a get on the fallback store returned a
\* value that was set
C6_Witness ==
    /\ OnFallback /\ Len(heap) = 2
    /\ Called("get") /\ ~last.failed /\ last.ret \in Values
    /\ last.pre.stats.sets > 0

\* C7: the connection state only moves from unconnected to connected-remote
\* or connected-fallback; once a backend is active no call, failing or not,
\* changes the active backend object or creates another connection object.
C7_TerminalStep ==
    /\ (redis_client = 0 /\ redis_client' # 0) =>
            \/ OnFallback'
            \/ OnRemote' /\ heap'[redis_client'].pinged
    /\ redis_client # 0 =>
            /\ redis_client' = redis_client
            /\ heap'[redis_client'].kind = heap[redis_client].kind
            /\ Len(heap') = Len(heap)

\* C7: every step of the gateway keeps the connection state terminal
C7_Terminal == [][C7_TerminalStep]_vars

\* a call that failed on a gateway that had fallen back before it
C7_Witness ==
    /\ OnFallback /\ last.op # "none"
    /\ last.pre_client = redis_client
    /\ last.failed

\* C11: while cache_enabled is false, get returns None, set and delete
\* return False and clear_pattern returns 0, and the call reaches no backend:
\* an unconnected gateway stays unconnected, no connection object is made,
\* and the active backend keeps its contents and its counters.
C11_DisabledStep ==
    ( /\ CallStep /\ ~cache_enabled
      /\ last'.op \in {"get", "set", "delete", "clear_pattern"} ) =>
        /\ last'.op = "get" => last'.ret = PyNone
        /\ last'.op = "set" => last'.ret = PyBool(FALSE)
        /\ last'.op = "delete" => last'.ret = PyBool(FALSE)
        /\ last'.op = "clear_pattern" => last'.ret = PyInt(0)
        /\ ~last'.failed
        /\ UNCHANGED <<redis_client, heap, redis_db>>

\* C11: every call on a disabled gateway is answered without a backend
C11_Disabled == [][C11_DisabledStep]_vars

\* a get on a disabled gateway for a key its fallback store holds
C11_Witness ==
    /\ Called("get") /\ ~last.enabled /\ last.ret = PyNone
    /\ OnFallback
    /\ last.args.key \in DOMAIN heap[redis_client].cache
    /\ heap[redis_client].stats = last.pre.stats

----------------------------------------------------------------------------
(* The server process: gateway calls while it runs, then its shutdown      *)

\* shutdown_event: await db_manager.disconnect(); the gateway and its backend
\* are not touched
shutdown_event ==
    /\ last.op # "shutdown_event"
    /\ last' = [op |-> "shutdown_event", at |-> now, pre_client |-> redis_client]
    /\ UNCHANGED <<cache_enabled, redis_client, heap, redis_db, now, ncalls, th, keyin, keyout, store>>

ServerNext == (last.op # "shutdown_event" /\ (Get \/ Set \/ Tick)) \/ shutdown_event

ServerSpec == Init /\ [][ServerNext]_vars

\* C22: at process shutdown the gateway is torn down: when a connection to
\* the remote cache was established, the shutdown handler has closed it.
C22_ClosesRemote ==
    (Called("shutdown_event") /\ OnRemote) => heap[redis_client].closed

----------------------------------------------------------------------------
(* The content cache helpers used by one caller at a time *)

ContentTypes == {"features", "hero_content"}
Filters == {<<>>, <<[k |-> "category", v |-> "a"]>>}
Contents == {PyList(<<PyInt(1), PyStr("a")>>)}
ContentTTLs == {PyNone, PyInt(60)}

ContentKey(content_type, filters) == get_cache_key("content:" \o content_type, "", filters)

\* the keys the active backend of g serves at time t
LiveKeys(g, t) ==
    IF g.redis_client = 0 THEN {}
    ELSE IF IsRedis(Backend(g)) THEN Redis_live(g.redis_db, t)
    ELSE {k \in DOMAIN Backend(g).cache :
            k \notin DOMAIN Backend(g).expiry \/ t < Backend(g).expiry[k]}

ContentCall(op, args, g, r, e) ==
    [op |-> op, args |-> args, env |-> e, at |-> now,
     enabled |-> g.cache_enabled, pre_client |-> g.redis_client,
     pre_keys |-> LiveKeys(g, now),
     ret |-> r.ret, failed |-> r.failed, raised |-> r.raised]

GetCachedContent ==
    \E content_type \in ContentTypes, filters \in Filters, e \in Envs(Gateway) :
        LET r == get_cached_content(Gateway, content_type, filters, now, e)
        IN  Complete(ContentCall("get_cached_content",
                                 [content_type |-> content_type, filters |-> filters],
                                 Gateway, r, e), r)

SetCachedContent ==
    \E content_type \in ContentTypes, content \in Contents, filters \in Filters,
       ttl \in ContentTTLs, e \in Envs(Gateway) :
        LET r == set_cached_content(Gateway, content_type, content, filters, ttl, now, e)
        IN  Complete(ContentCall("set_cached_content",
                                 [content_type |-> content_type, content |-> content,
                                  filters |-> filters, ttl |-> ttl],
                                 Gateway, r, e), r)

InvalidateContentCache ==
    \E content_type \in ContentTypes, e \in Envs(Gateway) :
        LET r == invalidate_content_cache(Gateway, content_type, now, e)
        IN  Complete(ContentCall("invalidate_content_cache",
                                 [content_type |-> content_type], Gateway, r, e), r)

ContentNext == GetCachedContent \/ SetCachedContent \/ InvalidateContentCache \/ Tick

ContentSpec == Init /\ [][ContentNext]_vars

\* C2: once set_cached_content(t, v, f) has succeeded, so that the entry of
\* (t, f) is in the cache, an invalidate_content_cache(t) that did not fail
\* makes the next get_cached_content(t, f) return absent, for every f
\* including the empty mapping.
C2_InvalidateStep ==
    ( /\ Called("invalidate_content_cache") /\ last.enabled /\ ~last.failed
      /\ CallStep
      /\ last'.op = "get_cached_content"
      /\ last'.args.content_type = last.args.content_type
      /\ ContentKey(last'.args.content_type, last'.args.filters) \in last.pre_keys )
        => last'.ret = PyNone

\* C2: every get_cached_content that follows an invalidate_content_cache of
\* its content type misses
C2_Invalidate == [][C2_InvalidateStep]_vars

\* the time the active backend lets the entry of key expire at
ExpiresAt(key) ==
    IF OnRemote THEN redis_db[key].exp ELSE heap[redis_client].expiry[key]

\* C4: set_cached_content(t, content, filters) without a ttl writes the entry
\* with the TTL get_cache_ttl(t) of its content type; an explicit ttl
\* overrides it.
C4_ContentTTL ==
    (Called("set_cached_content") /\ last.ret = PyBool(TRUE)) =>
        LET key == ContentKey(last.args.content_type, last.args.filters)
            ttl == IF last.args.ttl = PyNone
                   THEN get_cache_ttl(last.args.content_type)
                   ELSE last.args.ttl.n
        IN  ExpiresAt(key) = last.at + ttl

\* C17: CacheManager.set writes the entry with an effective TTL equal to ttl
\* whenever a ttl is given, and with the default of 3600 seconds only when
\* ttl is None.
C17_EffectiveTTL ==
    (Called("set") /\ last.ret = PyBool(TRUE)) =>
        LET ttl == IF last.args.ttl = PyNone THEN default_ttl ELSE last.args.ttl.n
        IN  ExpiresAt(last.args.key) = last.at + ttl

\* C27: invalidate_content_cache(t) leaves the entries of every other
\* content type in place: an entry that get_cached_content(u, filters)
\* served before the call, for u different from t, is served after it.
C27_OtherTypesKept ==
    (Called("invalidate_content_cache") /\ last.pre_client # 0) =>
        \A u \in ContentTypes \ {last.args.content_type}, filters \in Filters :
            ContentKey(u, filters) \in last.pre_keys =>
                ContentKey(u, filters) \in LiveKeys(Gateway, last.at)

\* an invalidation of features removed its filtered entry and left the entry
\* of hero_content served
C27_Witness ==
    /\ Called("invalidate_content_cache")
    /\ last.args.content_type = "features"
    /\ last.pre_client # 0
    /\ last.ret = PyInt(1)
    /\ ContentKey("features", <<[k |-> "category", v |-> "a"]>>) \in last.pre_keys
    /\ ContentKey("hero_content", <<>>) \in last.pre_keys
    /\ ContentKey("hero_content", <<>>) \in LiveKeys(Gateway, last.at)
    /\ ContentKey("features", <<[k |-> "category", v |-> "a"]>>) \notin LiveKeys(Gateway, last.at)

----------------------------------------------------------------------------
(* cache_result: a function wrapped by the decorator, called by one caller *)
(* at a time                                                               *)

\* the wrapped function, deterministic in its arguments: it returns None for
\* the argument None, raises for True, and otherwise returns a list of its
\* argument, led by 1 when the keyword category is given
func(args, kwargs) ==
    CASE args[1] = PyNone -> Return(PyNone)
      [] args[1] = PyBool(TRUE) -> Raise
      [] OTHER -> Return(IF kwargs = <<>> THEN PyList(<<args[1]>>)
                         ELSE PyList(<<PyInt(1), args[1]>>))

\* as cache_result, but the result is stored before the cache is asked
cache_result_WriteFirst(g, key_prefix, ttl, args, kwargs, t, e) ==
    LET cache_key == get_cache_key(key_prefix, "", kwargs)
        result == func(args, kwargs)
        stored == IF result.exc THEN Returned(g, PyBool(FALSE))
                  ELSE CacheManager_set(g, cache_key, result.ret, ttl, t, e)
        cached == CacheManager_get(stored.g, cache_key, t, e)
    IN  [g |-> cached.g, cached |-> cached.ret, called |-> TRUE, wrote |-> ~result.exc,
         raised |-> result.exc /\ cached.ret = PyNone,
         ret |-> IF cached.ret # PyNone THEN cached.ret
                 ELSE IF result.exc THEN PyNone ELSE result.ret]

\* wrapper(*args, **kwargs) of cache_result(key_prefix, ttl)(func): cached is
\* what cache_manager.get returned, called and wrote say whether func and
\* cache_manager.set were called, raised whether func's exception left it
cache_result(g, key_prefix, ttl, args, kwargs, t, e) ==
    LET cache_key == get_cache_key(key_prefix, "", kwargs)
        cached == CacheManager_get(g, cache_key, t, e)
        result == func(args, kwargs)
        stored == CacheManager_set(cached.g, cache_key, result.ret, ttl, t, e)
    IN  IF cached.ret # PyNone
        THEN [g |-> cached.g, cached |-> cached.ret, called |-> FALSE, wrote |-> FALSE,
              raised |-> FALSE, ret |-> cached.ret]
        ELSE IF result.exc
        THEN [g |-> cached.g, cached |-> PyNone, called |-> TRUE, wrote |-> FALSE,
              raised |-> TRUE, ret |-> PyNone]
        ELSE IF result.ret # PyNone
        THEN [g |-> stored.g, cached |-> PyNone, called |-> TRUE, wrote |-> TRUE,
              raised |-> FALSE, ret |-> result.ret]
        ELSE [g |-> cached.g, cached |-> PyNone, called |-> TRUE, wrote |-> FALSE,
              raised |-> FALSE, ret |-> PyNone]

\* the text the active backend of g serves under key at time t, "" for none
Served(g, key, t) ==
    IF key \notin LiveKeys(g, t) THEN ""
    ELSE IF IsRedis(Backend(g)) THEN g.redis_db[key].val ELSE Backend(g).cache[key]

\* a call of the wrapped function; pre_text is what the cache served under
\* each key before the call
Wrapper ==
    \E args \in {<<PyInt(1)>>, <<PyStr("a")>>, <<PyNone>>, <<PyBool(TRUE)>>},
       kwargs \in {<<>>, <<[k |-> "category", v |-> "a"]>>},
       e \in Envs(Gateway) :
        LET r == cache_result(Gateway, "features", PyNone, args, kwargs, now, e)
        IN  /\ ncalls < MaxCalls
            /\ ncalls' = ncalls + 1
            /\ last' = [op |-> "wrapper", args |-> args, kwargs |-> kwargs, env |-> e,
                        at |-> now, cached |-> r.cached, called |-> r.called,
                        wrote |-> r.wrote, raised |-> r.raised, ret |-> r.ret,
                        pre_text |-> [k \in {"features", "features:category:a"} |->
                                        Served(Gateway, k, now)]]
            /\ redis_client' = r.g.redis_client
            /\ heap' = r.g.heap
            /\ redis_db' = r.g.redis_db
            /\ UNCHANGED <<cache_enabled, now, th, keyin, keyout, store>>

WrapNext == Wrapper \/ Tick

WrapSpec == Init /\ [][WrapNext]_vars

\* C24: the wrapper writes a result to the cache only after the wrapped
\* function returned it: on a cache hit the function is not called and
\* nothing is written, a call whose function raised writes nothing, a None
\* result is not cached, and what is written is the result returned.
C24_WriteAfterResult ==
    Called("wrapper") =>
        LET key == get_cache_key("features", "", last.kwargs)
            result == func(last.args, last.kwargs)
            unwritten == \A k \in DOMAIN last.pre_text :
                            Served(Gateway, k, last.at) \in {"", last.pre_text[k]}
        IN  /\ last.cached # PyNone => ~last.called /\ ~last.wrote /\ unwritten
            /\ (last.called /\ result.exc) => last.raised /\ ~last.wrote /\ unwritten
            /\ (last.called /\ ~result.exc /\ result.ret = PyNone) =>
                    ~last.wrote /\ unwritten /\ last.ret = PyNone
            /\ last.wrote =>
                    /\ last.called /\ ~result.exc /\ last.ret = result.ret
                    /\ Served(Gateway, key, last.at) \in {"", last.pre_text[key],
                                                         json_encode(result.ret)}

\* a call whose function raised while the cache held an entry under another
\* key, after a call that was served from the cache
C24_Witness ==
    /\ Called("wrapper") /\ last.called /\ last.raised
    /\ \E k \in DOMAIN last.pre_text : last.pre_text[k] # ""
    /\ OnRemote

\* C25: for a deterministic wrapped function a call through the wrapper
\* returns what the function returns for the arguments of that call, whatever
\* calls with other arguments came before.
C25_OwnResult ==
    (Called("wrapper") /\ ~last.raised) =>
        last.ret = func(last.args, last.kwargs).ret

----------------------------------------------------------------------------
(* set_cached_content followed by get_cached_content, for more contents *)

\* an empty list, a mapping with a nested mapping, and a value JSON has no
\* form for: a mapping with an int key
RoundTripContents ==
    { PyList(<<>>),
      PyDict(<<[k |-> PyStr("id"), v |-> PyInt(1)],
               [k |-> PyStr("meta"), v |-> PyDict(<<[k |-> PyStr("id"), v |-> PyInt(1)]>>)]>>),
      PyDict(<<[k |-> PyInt(1), v |-> PyInt(1)]>>) }

RECURSIVE JsonRepresentable(_)
\* the values JSON has a form for
JsonRepresentable(v) ==
    CASE v.t \in {"NoneType", "bool", "int", "str"} -> TRUE
      [] v.t = "list" -> \A i \in 1..Len(v.items) : JsonRepresentable(v.items[i])
      [] v.t = "dict" ->
            \A i \in 1..Len(v.items) :
                v.items[i].k.t = "str" /\ JsonRepresentable(v.items[i].v)
      [] OTHER -> FALSE

PutContent ==
    \E content_type \in ContentTypes, content \in RoundTripContents, filters \in Filters,
       e \in Envs(Gateway) :
        LET r == set_cached_content(Gateway, content_type, content, filters, PyNone, now, e)
        IN  Complete(ContentCall("set_cached_content",
                                 [content_type |-> content_type, content |-> content,
                                  filters |-> filters, ttl |-> PyNone],
                                 Gateway, r, e), r)

RoundTripNext == PutContent \/ GetCachedContent

RoundTripSpec == Init /\ [][RoundTripNext]_vars

\* C12: for every content type t, filter mapping f and JSON-representable
\* value v, empty lists and nested mappings included, a get_cached_content(t, f)
\* that follows a successful set_cached_content(t, v, f) at once returns a
\* value equal to v.
C12_RoundTripStep ==
    ( /\ Called("set_cached_content") /\ last.ret = PyBool(TRUE)
      /\ JsonRepresentable(last.args.content)
      /\ CallStep
      /\ last'.op = "get_cached_content" /\ ~last'.failed
      /\ last'.args.content_type = last.args.content_type
      /\ last'.args.filters = last.args.filters
      /\ last'.at = last.at )
        => last'.ret = last.args.content

\* C12: every get_cached_content that follows the set_cached_content of its
\* key returns what was set
C12_RoundTrip == [][C12_RoundTripStep]_vars

\* a get that returned a mapping with a nested mapping from the remote server
C12_Witness ==
    /\ Called("get_cached_content") /\ ~last.failed
    /\ OnRemote
    /\ last.ret.t = "dict"
    /\ \E i \in 1..Len(last.ret.items) : last.ret.items[i].v.t = "dict"

----------------------------------------------------------------------------
(* get_cache_key applied to arguments drawn from small sets *)

Prefixes == {"content:features", "content"}
Identifiers == {"", "features"}
FilterItems == {[k |-> "category", v |-> "a"], [k |-> "step_type", v |-> "b"]}
\* the keyword mappings over FilterItems, in every insertion order
Kwargs ==
    {<<>>} \cup {<<p>> : p \in FilterItems}
           \cup {pq \in FilterItems \X FilterItems : pq[1].k # pq[2].k}

KeyInit ==
    /\ cache_enabled = TRUE
    /\ redis_client = 0
    /\ heap = <<>>
    /\ redis_db = EmptyDict
    /\ now = 0
    /\ ncalls = 0
    /\ last = [op |-> "none"]
    /\ th = NoThreads
    /\ keyin = NoKeys
    /\ keyout = NoKeys
    /\ store = NoStore

BuildKey ==
    /\ Len(keyin) < MaxKeyCalls
    /\ \E prefix \in Prefixes, identifier \in Identifiers, kwargs \in Kwargs :
        /\ keyin' = Append(keyin, [prefix |-> prefix, identifier |-> identifier, kwargs |-> kwargs])
        /\ keyout' = Append(keyout, get_cache_key(prefix, identifier, kwargs))
    /\ UNCHANGED <<cache_enabled, redis_client, heap, redis_db, now, ncalls, last, th, store>>

KeySpec == KeyInit /\ [][BuildKey]_vars

Items(kwargs) == {kwargs[i] : i \in 1..Len(kwargs)}

\* C3: get_cache_key does not depend on the order the filter pairs are
\* given in: two calls with the same prefix, the same identifier and the same
\* key-value pairs return the same key.
C3_OrderIndependent ==
    \A i, j \in 1..Len(keyin) :
        ( /\ keyin[i].prefix = keyin[j].prefix
          /\ keyin[i].identifier = keyin[j].identifier
          /\ Items(keyin[i].kwargs) = Items(keyin[j].kwargs) ) => keyout[i] = keyout[j]

\* C16: key construction is injective on logical queries: two get_cache_key
\* calls that differ in the prefix, in the identifier or in the set of filter
\* pairs return different keys.
C16_Injective ==
    \A i, j \in 1..Len(keyin) :
        ( \/ keyin[i].prefix # keyin[j].prefix
          \/ keyin[i].identifier # keyin[j].identifier
          \/ Items(keyin[i].kwargs) # Items(keyin[j].kwargs) ) => keyout[i] # keyout[j]

----------------------------------------------------------------------------
(* The gateway used by several threads at once.  No lock guards            *)
(* CacheManager, so a thread can be preempted between any two reads or     *)
(* writes of self.redis_client: a call is a sequence of steps, one per     *)
(* access to the shared gateway.  th[t].pc is where thread t is:           *)
(*   idle, check (line 35/52), from_url (21), ping (23), except (27),      *)
(*   hasattr (58), call (38/60/63), done (the call returned).              *)

Threads == {1, 2}
RaceKeys == {"content:features:category:a"}
RaceValue == PyList(<<PyInt(1), PyStr("a")>>)

RaceInit ==
    /\ cache_enabled = TRUE
    /\ redis_client = 0
    /\ heap = <<>>
    /\ redis_db = EmptyDict
    /\ now = 0
    /\ ncalls = 0
    /\ last = [op |-> "none"]
    /\ th = [t \in Threads |->
                [pc |-> "idle", op |-> "none", key |-> "", calls |-> 0, connects |-> 0,
                 probe |-> FALSE, ret |-> PyNone, failed |-> FALSE,
                 unpinged |-> FALSE, wrote |-> {}]]
    /\ keyin = NoKeys
    /\ keyout = NoKeys
    /\ store = NoStore

RaceFrame == UNCHANGED <<cache_enabled, now, ncalls, last, keyin, keyout, store>>

\* where a thread goes on after "if not self.redis_client: self.connect()"
AfterConnect(t) == IF th[t].op = "set" THEN "hasattr" ELSE "call"

\* a thread calls cache_manager.get(key) or cache_manager.set(key, value)
R_Begin(t) ==
    /\ th[t].pc \in {"idle", "done"}
    /\ th[t].calls < MaxThreadCalls
    /\ \E op \in {"get", "set"}, key \in RaceKeys :
        th' = [th EXCEPT ![t].op = op, ![t].key = key, ![t].failed = FALSE,
                         ![t].unpinged = FALSE,
                         ![t].pc = IF cache_enabled THEN "check" ELSE "done",
                         ![t].ret = IF op = "get" THEN PyNone ELSE PyBool(FALSE)]
    /\ UNCHANGED <<redis_client, heap, redis_db>>
    /\ RaceFrame

\* if not self.redis_client:
R_Check(t) ==
    /\ th[t].pc = "check"
    /\ th' = [th EXCEPT ![t].pc = IF redis_client = 0 THEN "from_url" ELSE AfterConnect(t)]
    /\ UNCHANGED <<redis_client, heap, redis_db>>
    /\ RaceFrame

\* self.redis_client = redis.from_url(redis_url, decode_responses=True)
R_FromUrl(t) ==
    /\ th[t].pc = "from_url"
    /\ \E ok \in BOOLEAN :
        IF ok
        THEN /\ heap' = Append(heap, Redis_init)
             /\ redis_client' = Len(heap) + 1
             /\ th' = [th EXCEPT ![t].pc = "ping", ![t].connects = @ + 1]
        ELSE /\ th' = [th EXCEPT ![t].pc = "except", ![t].connects = @ + 1]
             /\ UNCHANGED <<redis_client, heap>>
    /\ UNCHANGED redis_db
    /\ RaceFrame

\* self.redis_client.ping(): the attribute is read again, so the ping goes
\* to whatever object is there now; an InMemoryCache has no ping
R_Ping(t) ==
    /\ th[t].pc = "ping"
    /\ IF IsRedis(heap[redis_client])
       THEN \E ok \in BOOLEAN :
            IF ok
            THEN /\ heap' = [heap EXCEPT ![redis_client].pinged = TRUE]
                 /\ th' = [th EXCEPT ![t].pc = AfterConnect(t)]
            ELSE /\ th' = [th EXCEPT ![t].pc = "except"]
                 /\ UNCHANGED heap
       ELSE /\ th' = [th EXCEPT ![t].pc = "except"]
            /\ UNCHANGED heap
    /\ UNCHANGED <<redis_client, redis_db>>
    /\ RaceFrame

\* except Exception: self.redis_client = InMemoryCache()
R_Except(t) ==
    /\ th[t].pc = "except"
    /\ heap' = Append(heap, InMemoryCache_init)
    /\ redis_client' = Len(heap) + 1
    /\ th' = [th EXCEPT ![t].pc = AfterConnect(t)]
    /\ UNCHANGED redis_db
    /\ RaceFrame

\* if hasattr(self.redis_client, 'setex'):
R_HasAttr(t) ==
    /\ th[t].pc = "hasattr"
    /\ th' = [th EXCEPT ![t].probe = IsRedis(heap[redis_client]), ![t].pc = "call"]
    /\ UNCHANGED <<redis_client, heap, redis_db>>
    /\ RaceFrame

\* the call on self.redis_client, read once more, and the return
R_Call(t) ==
    /\ th[t].pc = "call"
    /\ \E ok \in BOOLEAN :
        LET obj == heap[redis_client]
            e == [from_url |-> TRUE, ping |-> TRUE, call |-> ok]
            r == IF th[t].op = "get"
                 THEN CacheManager_get(Gateway, th[t].key, now, e)
                 ELSE IF th[t].probe /\ ~IsRedis(obj)
                      \* InMemoryCache has no setex: AttributeError
                      THEN TryExcept(Threw(Gateway), PyBool(FALSE))
                      \* redis set(key, value, ttl) takes ttl as ex, as setex does
                      ELSE CacheManager_set(Gateway, th[t].key, RaceValue, PyNone, now, e)
        IN  /\ ~IsRedis(obj) => ok
            /\ heap' = r.g.heap
            /\ redis_db' = r.g.redis_db
            /\ th' = [th EXCEPT ![t].pc = "done", ![t].calls = @ + 1,
                                ![t].ret = r.ret, ![t].failed = r.failed,
                                ![t].unpinged = IsRedis(obj) /\ ~obj.pinged,
                                ![t].wrote = IF th[t].op = "set" /\ r.ret = PyBool(TRUE)
                                             THEN @ \cup {th[t].key} ELSE @]
    /\ UNCHANGED redis_client
    /\ RaceFrame

RaceNext ==
    \E t \in Threads :
        \/ R_Begin(t) \/ R_Check(t) \/ R_FromUrl(t) \/ R_Ping(t)
        \/ R_Except(t) \/ R_HasAttr(t) \/ R_Call(t)

RaceSpec == RaceInit /\ [][RaceNext]_vars

\* C8: when callers race on the first use, connection establishment runs at
\* most once, and an entry a caller has set successfully is returned by every
\* later get of that key that completes without an error.
C8_ConnectOnce ==
    /\ Cardinality({t \in Threads : th[t].connects > 0}) <= 1
    /\ \A t \in Threads :
        ( /\ th[t].pc = "done" /\ th[t].op = "get" /\ ~th[t].failed
          /\ th[t].key \in th[t].wrote ) => th[t].ret = RaceValue

\* C9: no operation is dispatched to a remote client whose ping has not
\* succeeded.
C9_NoHalfSet ==
    \A t \in Threads : th[t].pc = "done" => ~th[t].unpinged

----------------------------------------------------------------------------
(* One InMemoryCache used by several threads at once.  The class has no    *)
(* lock: a single dict operation is atomic, but a thread can be preempted  *)
(* between any two of them, and self.stats[name] += 1 is a read followed   *)
(* by a write.  The store is heap[1].  th[t].pc is where thread t is:      *)
(*   get:    get_in_cache (line 147), get_in_expiry and get_expiry_read    *)
(*           (148), hit_return (150)                                       *)
(*   set:    set_cache (160), set_expiry (161-162)                         *)
(*   delete: del_in_cache (167), del_cache (168), del_in_expiry (169),     *)
(*           del_expiry (170)                                              *)
(*   stat_read, stat_write: the two halves of self.stats[...] += 1         *)
(*           (149, 155, 163, 171)                                          *)

MemKeys == {"k1", "k2"}
\* every thread writes a text of its own
MemValue(t) == IF t = 1 THEN "[1]" ELSE "[2]"
MemTTLs == {PyInt(0), PyInt(1800)}

MemInit ==
    /\ cache_enabled = TRUE
    /\ redis_client = 1
    /\ heap = <<InMemoryCache_init>>
    /\ redis_db = EmptyDict
    /\ now = 0
    /\ ncalls = 0
    /\ last = [op |-> "none"]
    /\ th = [t \in Threads |->
                [pc |-> "idle", op |-> "none", key |-> "", value |-> "", ttl |-> PyNone,
                 stat |-> "none", tmp |-> 0, ret |-> PyNone, raised |-> FALSE,
                 nget |-> 0, nset |-> 0, used |-> {},
                 wrote |-> EmptyDict, began |-> 0]]
    /\ keyin = NoKeys
    /\ keyout = NoKeys
    /\ store = NoStore

MemFrame == UNCHANGED <<cache_enabled, redis_client, redis_db, now, ncalls, last, keyin, keyout, store>>

self_cache == heap[1].cache
self_expiry == heap[1].expiry
self_stats == heap[1].stats

\* the call of thread t returns ret, or raises
MemReturn(t, ret) ==
    [th EXCEPT ![t].pc = "done", ![t].ret = ret,
               ![t].nget = IF th[t].op = "get" THEN @ + 1 ELSE @,
               ![t].nset = IF th[t].op = "set" THEN @ + 1 ELSE @,
               ![t].wrote = IF th[t].op = "set"
                            THEN DictSet(@, th[t].key, [val |-> th[t].value, at |-> th[t].began])
                            ELSE @]

MemRaise(t) == [th EXCEPT ![t].pc = "done", ![t].raised = TRUE]

\* go on to self.stats[stat] += 1
Count(t, stat) == [th EXCEPT ![t].pc = "stat_read", ![t].stat = stat]

M_Begin(t) ==
    /\ th[t].pc \in {"idle", "done"}
    /\ ~th[t].raised
    /\ th[t].nget + th[t].nset < MaxThreadCalls
    /\ \E op \in {"get", "set"}, key \in MemKeys :
        \E ttl \in (IF op = "set" THEN MemTTLs ELSE {PyNone}) :
            th' = [th EXCEPT ![t].op = op, ![t].key = key,
                             ![t].value = IF op = "set" THEN MemValue(t) ELSE "",
                             ![t].ttl = ttl, ![t].ret = PyNone, ![t].began = now,
                             ![t].used = @ \cup {key},
                             ![t].pc = CASE op = "get" -> "get_in_cache"
                                         [] op = "set" -> "set_cache"]
    /\ UNCHANGED heap
    /\ MemFrame

\* self.cache[key] = value
M_SetCache(t) ==
    /\ th[t].pc = "set_cache"
    /\ heap' = [heap EXCEPT ![1].cache = DictSet(@, th[t].key, th[t].value)]
    /\ th' = IF Truthy(th[t].ttl) THEN [th EXCEPT ![t].pc = "set_expiry"] ELSE Count(t, "sets")
    /\ MemFrame

\* self.expiry[key] = datetime.now() + timedelta(seconds=ttl)
M_SetExpiry(t) ==
    /\ th[t].pc = "set_expiry"
    /\ heap' = [heap EXCEPT ![1].expiry = DictSet(@, th[t].key, now + th[t].ttl.n)]
    /\ th' = Count(t, "sets")
    /\ MemFrame

\* the read of self.stats[stat] += 1
M_StatRead(t) ==
    /\ th[t].pc = "stat_read"
    /\ th' = [th EXCEPT ![t].pc = "stat_write", ![t].tmp = self_stats[th[t].stat]]
    /\ UNCHANGED heap
    /\ MemFrame

\* the write of self.stats[stat] += 1, and what follows it
M_StatWrite(t) ==
    /\ th[t].pc = "stat_write"
    /\ heap' = [heap EXCEPT ![1].stats[th[t].stat] = th[t].tmp + 1]
    /\ th' = CASE th[t].stat = "sets" -> MemReturn(t, PyNone)
               [] th[t].stat = "misses" -> MemReturn(t, PyNone)
               [] th[t].stat = "hits" -> [th EXCEPT ![t].pc = "hit_return"]
               [] th[t].stat = "deletes" ->
                    \* delete returns: to get, which called it
                    Count(t, "misses")
    /\ MemFrame

\* if key in self.cache:
M_GetInCache(t) ==
    /\ th[t].pc = "get_in_cache"
    /\ th' = IF th[t].key \in DOMAIN self_cache
             THEN [th EXCEPT ![t].pc = "get_in_expiry"]
             ELSE Count(t, "misses")
    /\ UNCHANGED heap
    /\ MemFrame

\* if key not in self.expiry or ...
M_GetInExpiry(t) ==
    /\ th[t].pc = "get_in_expiry"
    /\ th' = IF th[t].key \notin DOMAIN self_expiry
             THEN Count(t, "hits")
             ELSE [th EXCEPT ![t].pc = "get_expiry_read"]
    /\ UNCHANGED heap
    /\ MemFrame

\* ... datetime.now() < self.expiry[key]; else self.delete(key)
M_GetExpiryRead(t) ==
    /\ th[t].pc = "get_expiry_read"
    /\ th' = IF th[t].key \notin DOMAIN self_expiry THEN MemRaise(t)
             ELSE IF now < self_expiry[th[t].key] THEN Count(t, "hits")
             ELSE [th EXCEPT ![t].pc = "del_in_cache"]
    /\ UNCHANGED heap
    /\ MemFrame

\* return self.cache[key]
M_HitReturn(t) ==
    /\ th[t].pc = "hit_return"
    /\ th' = IF th[t].key \in DOMAIN self_cache
             THEN MemReturn(t, PyStr(self_cache[th[t].key]))
             ELSE MemRaise(t)
    /\ UNCHANGED heap
    /\ MemFrame

\* if key in self.cache:
M_DelInCache(t) ==
    /\ th[t].pc = "del_in_cache"
    /\ th' = [th EXCEPT ![t].pc = IF th[t].key \in DOMAIN self_cache
                                  THEN "del_cache" ELSE "del_in_expiry"]
    /\ UNCHANGED heap
    /\ MemFrame

\* del self.cache[key]
M_DelCache(t) ==
    /\ th[t].pc = "del_cache"
    /\ IF th[t].key \in DOMAIN self_cache
       THEN /\ heap' = [heap EXCEPT ![1].cache = DictDel(@, th[t].key)]
            /\ th' = [th EXCEPT ![t].pc = "del_in_expiry"]
       ELSE /\ th' = MemRaise(t)
            /\ UNCHANGED heap
    /\ MemFrame

\* if key in self.expiry:
M_DelInExpiry(t) ==
    /\ th[t].pc = "del_in_expiry"
    /\ th' = IF th[t].key \in DOMAIN self_expiry
             THEN [th EXCEPT ![t].pc = "del_expiry"]
             ELSE Count(t, "deletes")
    /\ UNCHANGED heap
    /\ MemFrame

\* del self.expiry[key]
M_DelExpiry(t) ==
    /\ th[t].pc = "del_expiry"
    /\ IF th[t].key \in DOMAIN self_expiry
       THEN /\ heap' = [heap EXCEPT ![1].expiry = DictDel(@, th[t].key)]
            /\ th' = Count(t, "deletes")
       ELSE /\ th' = MemRaise(t)
            /\ UNCHANGED heap
    /\ MemFrame

\* time passes
M_Tick ==
    /\ \E d \in TickSteps :
        /\ now + d <= MaxMemNow
        /\ now' = now + d
    /\ UNCHANGED <<cache_enabled, redis_client, heap, redis_db, ncalls, last, th, keyin, keyout, store>>

MemNext ==
    \/ M_Tick
    \/ \E t \in Threads :
        \/ M_Begin(t) \/ M_SetCache(t) \/ M_SetExpiry(t) \/ M_StatRead(t) \/ M_StatWrite(t)
        \/ M_GetInCache(t) \/ M_GetInExpiry(t) \/ M_GetExpiryRead(t) \/ M_HitReturn(t)
        \/ M_DelInCache(t) \/ M_DelCache(t) \/ M_DelInExpiry(t) \/ M_DelExpiry(t)

MemSpec == MemInit /\ [][MemNext]_vars

RECURSIVE Sum(_, _)
Sum(f, S) == IF S = {} THEN 0 ELSE LET x == CHOOSE y \in S : TRUE IN f[x] + Sum(f, S \ {x})

Quiescent == \A t \in Threads : th[t].pc \in {"idle", "done"}
DisjointKeys == \A t, u \in Threads : t # u => th[t].used \cap th[u].used = {}

\* C10: for threads doing set and get on pairwise disjoint keys, under every
\* interleaving no call raises, a get returns the value last set for its key
\* (when no time has passed since that set), and once all calls have
\* returned sets equals the number of set calls and hits + misses the number
\* of get calls.
C10_DisjointKeys ==
    DisjointKeys =>
        /\ \A t \in Threads : ~th[t].raised
        /\ \A t \in Threads :
            ( /\ th[t].pc = "done" /\ th[t].op = "get"
              /\ th[t].key \in DOMAIN th[t].wrote
              /\ th[t].wrote[th[t].key].at = now ) =>
                    th[t].ret = PyStr(th[t].wrote[th[t].key].val)
        /\ Quiescent =>
            /\ self_stats.sets = Sum([t \in Threads |-> th[t].nset], Threads)
            /\ self_stats.hits + self_stats.misses = Sum([t \in Threads |-> th[t].nget], Threads)

\* C21: under every interleaving of calls on the same keys the value map and
\* the expiry map of an InMemoryCache agree: in every state a key with an
\* expiry record has a value, and once all calls have returned the expiry
\* record of a key is there exactly when the set that wrote its current value
\* had a ttl.
C21_MapsConsistent ==
    /\ \A k \in DOMAIN self_expiry : k \in DOMAIN self_cache
    /\ Quiescent =>
        \A t \in Threads :
            ( /\ th[t].op = "set" /\ th[t].key \in DOMAIN self_cache
              /\ self_cache[th[t].key] = MemValue(t) ) =>
                (th[t].key \in DOMAIN self_expiry <=> Truthy(th[t].ttl))

----------------------------------------------------------------------------
(* An InMemoryCache used directly by one caller at a time: every method    *)
(* call is one step.  The object is heap[1].                               *)

LocalKeys == {"k1", "k12", "j1"}
LocalValues == {"v1", "v2"}
LocalTTLs == {PyNone, PyInt(0), PyInt(1800)}
\* an exact key, two prefix wildcards, and a '*' in the middle
LocalPatterns == {"k1", "k1*", "j*", "k*2"}

LocalInit ==
    /\ cache_enabled = TRUE
    /\ redis_client = 1
    /\ heap = <<InMemoryCache_init>>
    /\ redis_db = EmptyDict
    /\ now = 0
    /\ ncalls = 0
    /\ last = [op |-> "none", forever |-> EmptyDict, nget |-> 0, nset |-> 0]
    /\ th = NoThreads
    /\ keyin = NoKeys
    /\ keyout = NoKeys
    /\ store = NoStore

\* the record of a completed call on the object: the object before it (pre)
\* and, in forever, the keys whose latest set had a falsy ttl and that were
\* not removed by a delete or a clear_pattern since, with the value set;
\* nget and nset count the get and set calls made so far
LocalCall(op, args, r, forever) ==
    [op |-> op, args |-> args, at |-> now, pre |-> heap[1], ret |-> r.ret,
     forever |-> forever,
     nget |-> IF op = "get" THEN last.nget + 1 ELSE last.nget,
     nset |-> IF op = "set" THEN last.nset + 1 ELSE last.nset]

LocalComplete(c, r) ==
    /\ ncalls < MaxCalls
    /\ ncalls' = ncalls + 1
    /\ last' = c
    /\ heap' = <<r.self>>
    /\ UNCHANGED <<cache_enabled, redis_client, redis_db, now, th, keyin, keyout, store>>

LocalGet ==
    \E key \in LocalKeys :
        LET r == InMemoryCache_get(heap[1], key, now)
        IN  LocalComplete(LocalCall("get", [key |-> key], r, last.forever), r)

LocalSet ==
    \E key \in LocalKeys, value \in LocalValues, ttl \in LocalTTLs :
        LET r == InMemoryCache_set(heap[1], key, value, ttl, now)
            forever == IF Truthy(ttl) THEN DictDel(last.forever, key)
                       ELSE DictSet(last.forever, key, value)
        IN  LocalComplete(LocalCall("set", [key |-> key, value |-> value, ttl |-> ttl],
                                    r, forever), r)

LocalDelete ==
    \E key \in LocalKeys :
        LET r == InMemoryCache_delete(heap[1], key)
        IN  LocalComplete(LocalCall("delete", [key |-> key], r, DictDel(last.forever, key)), r)

LocalClearPattern ==
    \E pattern \in LocalPatterns :
        LET r == InMemoryCache_clear_pattern(heap[1], pattern)
            forever == [k \in (DOMAIN last.forever) \cap (DOMAIN r.self.cache) |-> last.forever[k]]
        IN  LocalComplete(LocalCall("clear_pattern", [pattern |-> pattern], r, forever), r)

LocalGetStats ==
    LET r == InMemoryCache_get_stats(heap[1])
    IN  LocalComplete(LocalCall("get_stats", <<>>, r, last.forever), r)

LocalNext == LocalGet \/ LocalSet \/ LocalDelete \/ LocalClearPattern \/ LocalGetStats \/ Tick

LocalSpec == LocalInit /\ [][LocalNext]_vars

\* C13: after a set(key, value, ttl) with a falsy ttl (0 or None) the entry
\* never expires: a get(key) at any later time returns value, until the key
\* is deleted or set again, also when the key had been set with a positive
\* ttl before.
C13_NeverExpires ==
    (Called("get") /\ last.args.key \in DOMAIN last.forever) =>
        last.ret = PyStr(last.forever[last.args.key])

\* the pattern is an exact key or a prefix followed by one '*'
SupportedPattern(pattern) ==
    \/ ~Contains(pattern, "*")
    \/ /\ SubSeq(pattern, Len(pattern), Len(pattern)) = "*"
       /\ ~Contains(SubSeq(pattern, 1, Len(pattern) - 1), "*")

\* C14: clear_pattern(p) of an InMemoryCache removes exactly the keys that
\* start with text when p is text*, and exactly the key equal to p when p has
\* no '*'; it returns the number of keys removed, and every other key keeps
\* its value and its expiry.
C14_ClearPattern ==
    (Called("clear_pattern") /\ SupportedPattern(last.args.pattern)) =>
        LET p == last.args.pattern
            text == SubSeq(p, 1, Len(p) - 1)
            pre == last.pre
            post == heap[1]
            removed == IF Contains(p, "*")
                       THEN {k \in DOMAIN pre.cache : StartsWith(k, text)}
                       ELSE {k \in DOMAIN pre.cache : k = p}
        IN  /\ DOMAIN post.cache = (DOMAIN pre.cache) \ removed
            /\ DOMAIN post.expiry = (DOMAIN pre.expiry) \ removed
            /\ last.ret = PyInt(Cardinality(removed))
            /\ \A k \in DOMAIN post.cache : post.cache[k] = pre.cache[k]
            /\ \A k \in DOMAIN post.expiry : post.expiry[k] = pre.expiry[k]

\* a clear_pattern("k1*") that removed k12 and left j1 with its expiry
C14_Witness ==
    /\ Called("clear_pattern") /\ last.args.pattern = "k1*"
    /\ last.ret = PyInt(1) /\ "k12" \in DOMAIN last.pre.cache
    /\ DOMAIN heap[1].cache = {"j1"}
    /\ "j1" \in DOMAIN heap[1].expiry

\* C15: delete(key) of an InMemoryCache removes the value and the expiry of
\* the key when they are there and removes nothing when they are not; either
\* way the delete counter grows by one and the other counters, and the other
\* keys, stay as they were.
C15_Delete ==
    Called("delete") =>
        LET key == last.args.key
            pre == last.pre
            post == heap[1]
        IN  /\ DOMAIN post.cache = (DOMAIN pre.cache) \ {key}
            /\ DOMAIN post.expiry = (DOMAIN pre.expiry) \ {key}
            /\ \A k \in DOMAIN post.cache : post.cache[k] = pre.cache[k]
            /\ \A k \in DOMAIN post.expiry : post.expiry[k] = pre.expiry[k]
            /\ post.stats.deletes = pre.stats.deletes + 1
            /\ post.stats.hits = pre.stats.hits
            /\ post.stats.misses = pre.stats.misses
            /\ post.stats.sets = pre.stats.sets
            /\ last.ret = PyNone

\* a delete of a key that had a value and an expiry, next to another key
C15_Witness ==
    /\ Called("delete")
    /\ last.args.key \in DOMAIN last.pre.cache
    /\ last.args.key \in DOMAIN last.pre.expiry
    /\ heap[1].cache # EmptyDict

----------------------------------------------------------------------------
(* The document store and its helper functions (database.py).  A document  *)
(* is a record, a collection the list of its documents in insertion order. *)

Collections ==
    {"hero_content", "features", "testimonials", "process_steps", "specifications",
     "navigation", "footer_sections", "site_settings", "newsletter_signups"}

EmptyStore == [c \in Collections |-> <<>>]

\* str(uuid.uuid4()): an id no document of the store has
NewId(st) == "d" \o ToString(Sum([c \in Collections |-> Len(st[c])], Collections) + 1)

\* ContentBase: the fields of data, and id, is_active and order by default
ContentBase(st, data) == data @@ [id |-> NewId(st), is_active |-> TRUE, order |-> 0]

\* the document has every field of filter_dict with the value given there
Matches(doc, filter_dict) ==
    \A f \in DOMAIN filter_dict : f \in DOMAIN doc /\ doc[f] = filter_dict[f]

\* the orders find(...).sort(sort_field, sort_direction) can return docs in:
\* sorted on the field, documents with equal values in any order
Orderings(docs, sort_field, sort_direction) ==
    LET n == Len(docs)
        perms == {p \in [1..n -> 1..n] : \A i, j \in 1..n : i # j => p[i] # p[j]}
        sorted(p) ==
            \A i \in 1..(n - 1) :
                IF sort_direction = 1
                THEN docs[p[i]][sort_field] <= docs[p[i + 1]][sort_field]
                ELSE docs[p[i]][sort_field] >= docs[p[i + 1]][sort_field]
    IN  {[i \in 1..n |-> docs[p[i]]] : p \in {q \in perms : sorted(q)}}

\* the lists get_all_documents can return; filter_dict <<>> is None or {}
get_all_documents(st, collection_name, filter_dict, sort_field, sort_direction, limit) ==
    LET filter_dict1 == IF filter_dict = <<>> THEN [is_active |-> TRUE] ELSE filter_dict
        found == SelectSeq(st[collection_name], LAMBDA doc : Matches(doc, filter_dict1))
    IN  {SubSeq(docs, 1, IF limit < Len(docs) THEN limit ELSE Len(docs)) :
            docs \in Orderings(found, sort_field, sort_direction)}

create_document(st, collection_name, document) ==
    [st |-> [st EXCEPT ![collection_name] = Append(@, document)], ret |-> document]

\* as update_document, but the document is left as it was
update_document_Noop(st, collection_name, document_id, update_data) ==
    LET docs == st[collection_name]
        hits == {i \in 1..Len(docs) : docs[i].id = document_id}
    IN  IF hits = {} THEN [st |-> st, ret |-> PyNone]
        ELSE [st |-> st, ret |-> docs[CHOOSE i \in hits : \A j \in hits : i <= j]]

\* update_one changes the first document with the id; updated_at always
\* changes, so a document that matched counts as modified
update_document(st, collection_name, document_id, update_data) ==
    LET docs == st[collection_name]
        hits == {i \in 1..Len(docs) : docs[i].id = document_id}
    IN  IF hits = {} THEN [st |-> st, ret |-> PyNone]
        ELSE LET i == CHOOSE h \in hits : \A j \in hits : h <= j
                 doc == update_data @@ docs[i]
             IN  [st |-> [st EXCEPT ![collection_name][i] = doc], ret |-> doc]

----------------------------------------------------------------------------
(* The content endpoints (content_api.py).  A handler gives the set of     *)
(* outcomes [st, status, body, calls] it can have: the store it leaves,    *)
(* the HTTP status, the response body and the helper calls it made, in     *)
(* order.  fail is the number of the store call that raises (0: none).     *)

CallOf(f, arg) == [f |-> f, arg |-> arg]

\* return ResponseModel(success=True, message=..., data=...)
Ok(st, message, data, calls) ==
    [st |-> st, status |-> 200,
     body |-> [success |-> TRUE, message |-> message, data |-> data], calls |-> calls]

\* except Exception: raise HTTPException(status_code=500, ...)
InternalError(st, calls) ==
    [st |-> st, status |-> 500, body |-> [detail |-> "Internal server error"], calls |-> calls]

\* a handler that returns the list get_all_documents gave it
ListEndpoint(st, collection_name, filter_dict, limit, message, fail) ==
    LET calls == <<CallOf("get_all_documents", collection_name)>>
    IN  IF fail = 1 THEN {InternalError(st, calls)}
        ELSE {Ok(st, message, PyList(docs), calls) :
                docs \in get_all_documents(st, collection_name, filter_dict, "order", 1, limit)}

\* a handler that returns the one active document of a collection
SingleEndpoint(st, collection_name, found, missing, fail) ==
    LET calls == <<CallOf("get_all_documents", collection_name)>>
    IN  IF fail = 1 THEN {InternalError(st, calls)}
        ELSE {IF docs = <<>>
              THEN [st |-> st, status |-> 200,
                    body |-> [success |-> FALSE, message |-> missing, data |-> PyNone],
                    calls |-> calls]
              ELSE Ok(st, found, docs[1], calls) :
                docs \in get_all_documents(st, collection_name, [is_active |-> TRUE], "order", 1, 1)}

\* the handlers that build a document from the request and insert it
CreateEndpoint(st, collection_name, data, message, fail) ==
    LET calls == <<CallOf("create_document", collection_name)>>
        created == create_document(st, collection_name, ContentBase(st, data))
    IN  IF fail = 1 THEN {InternalError(st, calls)}
        ELSE {Ok(created.st, message, created.ret, calls)}

RECURSIVE Deactivate(_, _, _, _, _)
\* for doc in existing: await update_document(name, doc["id"], {"is_active": False})
\* from the i-th document on; update number i is store call number i + 1
Deactivate(st, collection_name, existing, i, fail) ==
    IF i > Len(existing) THEN [st |-> st, exc |-> FALSE, n |-> Len(existing)]
    ELSE IF fail = i + 1 THEN [st |-> st, exc |-> TRUE, n |-> i]
    ELSE Deactivate(update_document(st, collection_name, existing[i].id,
                                    [is_active |-> FALSE]).st,
                    collection_name, existing, i + 1, fail)

\* the handlers that deactivate the active documents and insert a new one
ReplaceEndpoint(st, collection_name, data, message, fail) ==
    LET read == <<CallOf("get_all_documents", collection_name)>>
        updates(n) == [i \in 1..n |-> CallOf("update_document", collection_name)]
        write == <<CallOf("create_document", collection_name)>>
    IN  IF fail = 1 THEN {InternalError(st, read)}
        ELSE {LET off == Deactivate(st, collection_name, existing, 1, fail)
                  created == create_document(off.st, collection_name, ContentBase(off.st, data))
              IN  IF off.exc THEN InternalError(off.st, read \o updates(off.n))
                  ELSE IF fail = Len(existing) + 2
                       THEN InternalError(off.st, read \o updates(off.n) \o write)
                       ELSE Ok(created.st, message, created.ret, read \o updates(off.n) \o write) :
                existing \in get_all_documents(st, collection_name, [is_active |-> TRUE],
                                               "order", 1, 1000)}

----------------------------------------------------------------------------
(* The content API serving one request at a time: every request is one     *)
(* step, named after its handler.                                          *)

\* the store after seed_data.py ran: its hero has order 1
SeededStore ==
    [EmptyStore EXCEPT
        !["hero_content"] = <<[id |-> "d1", is_active |-> TRUE, order |-> 1, title |-> "Atlas"]>>,
        !["features"] = <<[id |-> "d2", is_active |-> TRUE, order |-> 1, title |-> "f",
                           category |-> "a"]>>]

\* the number of store calls a ReplaceEndpoint handler makes
ReplaceCalls(collection_name) ==
    Len(SelectSeq(store[collection_name], LAMBDA doc : doc.is_active)) + 2

ApiInit ==
    /\ cache_enabled = TRUE
    /\ redis_client = 0
    /\ heap = <<>>
    /\ redis_db = EmptyDict
    /\ now = 0
    /\ ncalls = 0
    /\ last = [op |-> "none"]
    /\ th = NoThreads
    /\ keyin = NoKeys
    /\ keyout = NoKeys
    /\ store \in {EmptyStore, SeededStore}

\* a request was served: what was asked, what the store did, what went back
Respond(op, args, fail, out) ==
    /\ ncalls < MaxCalls
    /\ ncalls' = ncalls + 1
    /\ last' = [op |-> op, args |-> args, fail |-> fail, status |-> out.status,
                body |-> out.body, calls |-> out.calls]
    /\ store' = out.st
    /\ UNCHANGED <<cache_enabled, redis_client, heap, redis_db, now, th, keyin, keyout>>

get_hero_content ==
    \E fail \in 0..1 :
        \E out \in SingleEndpoint(store, "hero_content", "Hero content retrieved successfully",
                                  "No hero content found", fail) :
            Respond("get_hero_content", <<>>, fail, out)

create_hero_content ==
    \E hero_data \in {[title |-> "A"], [title |-> "B"]},
       fail \in 0..ReplaceCalls("hero_content") :
        \E out \in ReplaceEndpoint(store, "hero_content", hero_data,
                                   "Hero content created successfully", fail) :
            Respond("create_hero_content", [data |-> hero_data], fail, out)

\* category "" is a request without the query parameter
get_features ==
    \E category \in {"", "a"}, fail \in 0..1 :
        LET filter_dict == IF category # "" THEN [is_active |-> TRUE, category |-> category]
                           ELSE [is_active |-> TRUE]
        IN  \E out \in ListEndpoint(store, "features", filter_dict, 1000,
                                    "Features retrieved successfully", fail) :
                Respond("get_features", [category |-> category], fail, out)

create_feature ==
    \E feature_data \in {[title |-> "f", category |-> "a", order |-> 0],
                         [title |-> "g", category |-> "b", order |-> 1]},
       fail \in 0..1 :
        \E out \in CreateEndpoint(store, "features", feature_data,
                                  "Feature created successfully", fail) :
            Respond("create_feature", [data |-> feature_data], fail, out)

\* feature_id is the id of a feature in the store or one no feature has.
\* The HTTPException(404) is raised inside the try block, and the
\* except Exception clause turns it into a 500
update_feature ==
    \E feature_id \in {store["features"][i].id : i \in 1..Len(store["features"])}
                        \cup {"missing"},
       feature_data \in {[title |-> "f", category |-> "a", order |-> 0],
                         [title |-> "g", category |-> "b", order |-> 1]},
       fail \in 0..1 :
        LET calls == <<CallOf("update_document", "features")>>
            updated == update_document(store, "features", feature_id, feature_data)
            out == IF fail = 1 \/ updated.ret = PyNone THEN InternalError(store, calls)
                   ELSE Ok(updated.st, "Feature updated successfully", updated.ret, calls)
        IN  Respond("update_feature", [feature_id |-> feature_id, data |-> feature_data],
                    fail, out)

create_testimonial ==
    \E fail \in 0..1 :
        \E out \in CreateEndpoint(store, "testimonials", [author |-> "t", order |-> 0],
                                  "Testimonial created successfully", fail) :
            Respond("create_testimonial", <<>>, fail, out)

create_process_step ==
    \E fail \in 0..1 :
        \E out \in CreateEndpoint(store, "process_steps",
                                  [title |-> "p", step_type |-> "process", order |-> 0],
                                  "Process step created successfully", fail) :
            Respond("create_process_step", <<>>, fail, out)

create_specification ==
    \E fail \in 0..1 :
        \E out \in CreateEndpoint(store, "specifications", [section_title |-> "s", order |-> 0],
                                  "Specification created successfully", fail) :
            Respond("create_specification", <<>>, fail, out)

create_navigation_item ==
    \E fail \in 0..1 :
        \E out \in CreateEndpoint(store, "navigation",
                                  [label |-> "n", nav_type |-> "main", order |-> 0],
                                  "Navigation item created successfully", fail) :
            Respond("create_navigation_item", <<>>, fail, out)

create_footer_section ==
    \E fail \in 0..1 :
        \E out \in CreateEndpoint(store, "footer_sections", [title |-> "o", order |-> 0],
                                  "Footer section created successfully", fail) :
            Respond("create_footer_section", <<>>, fail, out)

create_site_settings ==
    \E fail \in 0..ReplaceCalls("site_settings") :
        \E out \in ReplaceEndpoint(store, "site_settings", [site_title |-> "w"],
                                   "Site settings created successfully", fail) :
            Respond("create_site_settings", <<>>, fail, out)

ApiNext ==
    \/ get_hero_content \/ create_hero_content
    \/ get_features \/ create_feature \/ update_feature
    \/ create_testimonial \/ create_process_step \/ create_specification
    \/ create_navigation_item \/ create_footer_section \/ create_site_settings

ApiSpec == ApiInit /\ [][ApiNext]_vars

\* the collection each content-mutating endpoint writes to
Modifies ==
    [create_hero_content |-> "hero_content", create_feature |-> "features",
     update_feature |-> "features", create_testimonial |-> "testimonials",
     create_process_step |-> "process_steps", create_specification |-> "specifications",
     create_navigation_item |-> "navigation", create_footer_section |-> "footer_sections",
     create_site_settings |-> "site_settings"]

Succeeded == last.op # "none" /\ last.status = 200 /\ last.body.success

\* C18: every content-mutating endpoint calls invalidate_content_cache for
\* the content type it modified, after its store write succeeded and before
\* it returns.
C18_Invalidates ==
    (last.op \in DOMAIN Modifies /\ Succeeded) =>
        \E i, j \in 1..Len(last.calls) :
            /\ i < j
            /\ last.calls[i].f \in {"create_document", "update_document"}
            /\ last.calls[j] = CallOf("invalidate_content_cache", Modifies[last.op])

\* C19: a content read endpoint asks the cache first; a GET that repeats the
\* GET before it, with no write in between, is served from the cache and
\* makes no query to the document store.
C19_CacheAsideStep ==
    (CallStep /\ last'.op \in {"get_hero_content", "get_features"}) =>
        /\ last'.calls # <<>> /\ last'.calls[1].f = "get_cached_content"
        /\ ( /\ last.op = last'.op /\ last.args = last'.args
             /\ Succeeded /\ last'.status = 200 ) =>
                \A i \in 1..Len(last'.calls) : last'.calls[i].f # "get_all_documents"

\* C19: every read request follows the cache-aside order
C19_CacheAside == [][C19_CacheAsideStep]_vars

\* C20: after a POST /content/hero that succeeded, the next GET /content/hero
\* returns the hero that POST created and no earlier one, whatever GETs and
\* POSTs came before.
C20_FreshHeroStep ==
    ( /\ Called("create_hero_content") /\ Succeeded
      /\ CallStep
      /\ last'.op = "get_hero_content" /\ last'.status = 200 ) =>
        /\ last'.body.success
        /\ last'.body.data = last.body.data

\* C20: every GET of the hero that follows a POST of a hero returns that hero
C20_FreshHero == [][C20_FreshHeroStep]_vars

\* a GET that returned the hero posted last while the store holds the seeded
\* hero and the hero of an earlier POST
C20_Witness ==
    /\ Called("get_hero_content") /\ Succeeded
    /\ Len(store["hero_content"]) = 3
    /\ last.body.data = store["hero_content"][3]
    /\ last.body.data.title # store["hero_content"][2].title

\* C29: update_feature for a feature_id no document has, with the store
\* answering, ends with the response 404 "Feature not found".
C29_NotFound ==
    (Called("update_feature") /\ last.args.feature_id = "missing" /\ last.fail = 0) =>
        /\ last.status = 404
        /\ last.body.detail = "Feature not found"

\* C23: after any sequence of calls on one InMemoryCache every get has
\* added one to hits when it returned a value and one to misses when it
\* returned absent, and to nothing else of the two, so hits + misses is the
\* number of get calls and sets the number of set calls; get_stats reports
\* hit_rate 0 while hits + misses is 0.
C23_Counters ==
    last.op # "none" =>
        LET pre == last.pre.stats
            post == heap[1].stats
        IN  /\ post.hits + post.misses = last.nget
            /\ post.sets = last.nset
            /\ Called("get") =>
                    IF last.ret # PyNone
                    THEN post.hits = pre.hits + 1 /\ post.misses = pre.misses
                    ELSE post.misses = pre.misses + 1 /\ post.hits = pre.hits
            /\ (Called("get_stats") /\ post.hits + post.misses = 0) =>
                    last.ret.hit_rate[1] = 0

\* a get that hit after a get that missed and a set
C23_Witness ==
    /\ Called("get") /\ last.ret # PyNone
    /\ last.nget = 2 /\ last.nset = 1
    /\ heap[1].stats.hits = 1 /\ heap[1].stats.misses = 1

----------------------------------------------------------------------------
(* A read-through caller next to a writer.  The reader is the wrapper of   *)
(* cache_result("content:features") around a function that reads the      *)
(* features of a category from the store; it can be suspended at its       *)
(* await.  The writer inserts a feature and then invalidates the content   *)
(* type, as the specification asks of a mutating endpoint.                 *)

FeatureKey == get_cache_key("content:features", "", <<[k |-> "category", v |-> "a"]>>)

\* the result of the wrapped function: the features of category a, each as
\* the mapping of its id
ReadFeatures(st) ==
    LET docs == SelectSeq(st["features"], LAMBDA doc : doc.is_active /\ doc.category = "a")
    IN  PyList([i \in 1..Len(docs) |-> PyDict(<<[k |-> PyStr("id"), v |-> PyInt(docs[i].id)]>>)])

FlowInit ==
    /\ cache_enabled = TRUE
    /\ redis_client = 0
    /\ heap = <<>>
    /\ redis_db = EmptyDict
    /\ now = 0
    /\ ncalls = 0
    /\ last = [op |-> "none"]
    /\ th = [reader |-> [pc |-> "idle", result |-> PyNone, n |-> 0],
             writer |-> [pc |-> "idle", cleared |-> FALSE]]
    /\ keyin = NoKeys
    /\ keyout = NoKeys
    /\ store = EmptyStore

FlowFrame == UNCHANGED <<cache_enabled, now, ncalls, last, keyin, keyout>>

SetGateway(g) ==
    /\ redis_client' = g.redis_client
    /\ heap' = g.heap
    /\ redis_db' = g.redis_db

\* cached_result = cache_manager.get(cache_key); return it if not None
F_Get ==
    /\ th.reader.pc \in {"idle", "done"}
    /\ th.reader.n < MaxThreadCalls
    /\ \E e \in Envs(Gateway) :
        LET r == CacheManager_get(Gateway, FeatureKey, now, e)
        IN  /\ SetGateway(r.g)
            /\ th' = [th EXCEPT !.reader.n = @ + 1,
                                !.reader.result = r.ret,
                                !.reader.pc = IF r.ret # PyNone THEN "done" ELSE "await"]
    /\ UNCHANGED store
    /\ FlowFrame

\* result = await func(*args, **kwargs): the store is read
F_Func ==
    /\ th.reader.pc = "await"
    /\ th' = [th EXCEPT !.reader.result = ReadFeatures(store), !.reader.pc = "set"]
    /\ UNCHANGED <<redis_client, heap, redis_db, store>>
    /\ FlowFrame

\* if result is not None: cache_manager.set(cache_key, result, ttl)
F_Set ==
    /\ th.reader.pc = "set"
    /\ \E e \in Envs(Gateway) :
        LET r == CacheManager_set(Gateway, FeatureKey, th.reader.result, PyNone, now, e)
        IN  IF th.reader.result # PyNone
            THEN SetGateway(r.g)
            ELSE UNCHANGED <<redis_client, heap, redis_db>>
    /\ th' = [th EXCEPT !.reader.pc = "done"]
    /\ UNCHANGED store
    /\ FlowFrame

\* the writer's store write: a new feature of category a
W_Create ==
    /\ th.writer.pc = "idle"
    /\ store' = create_document(store, "features",
                                [id |-> Len(store["features"]) + 1, is_active |-> TRUE,
                                 order |-> 0, category |-> "a"]).st
    /\ th' = [th EXCEPT !.writer.pc = "invalidate"]
    /\ UNCHANGED <<redis_client, heap, redis_db>>
    /\ FlowFrame

\* the writer's invalidate_content_cache("features")
W_Invalidate ==
    /\ th.writer.pc = "invalidate"
    /\ \E e \in Envs(Gateway) :
        LET r == invalidate_content_cache(Gateway, "features", now, e)
        IN  /\ SetGateway(r.g)
            /\ th' = [th EXCEPT !.writer.pc = "done", !.writer.cleared = ~r.failed]
    /\ UNCHANGED store
    /\ FlowFrame

FlowNext == F_Get \/ F_Func \/ F_Set \/ W_Create \/ W_Invalidate

FlowSpec == FlowInit /\ [][FlowNext]_vars

\* C26: once the writer's invalidate has returned, every entry the cache
\* holds for the content type was read from the store after the write: a
\* read-through that read the store before the write leaves no result of
\* that read in the cache.
C26_NoStaleEntry ==
    (th.writer.pc = "done" /\ th.writer.cleared) =>
        Served(Gateway, FeatureKey, now) \in {"", json_encode(ReadFeatures(store))}

----------------------------------------------------------------------------
(* Requests served concurrently: a handler is suspended at each await of a *)
(* store call and another request's handler can run there.  Each store     *)
(* call takes effect in one step; the store answers every call.            *)

Requests == 1..2

ReqInit ==
    /\ cache_enabled = TRUE
    /\ redis_client = 0
    /\ heap = <<>>
    /\ redis_db = EmptyDict
    /\ now = 0
    /\ ncalls = 0
    /\ last = [op |-> "none", responses |-> <<>>]
    /\ th = [r \in Requests |-> [op |-> "none", pc |-> "idle", n |-> 0, data |-> <<>>,
                                 existing |-> <<>>, i |-> 0]]
    /\ keyin = NoKeys
    /\ keyout = NoKeys
    /\ store \in {EmptyStore, SeededStore}

ReqFrame == UNCHANGED <<cache_enabled, redis_client, heap, redis_db, now, ncalls, keyin, keyout>>

\* the request r can start a handler
Arrives(r) == th[r].pc \in {"idle", "done"} /\ th[r].n < MaxThreadCalls

\* the response of request r leaves the handler
Responds(r, out) ==
    last' = [op |-> th[r].op,
             responses |-> Append(last.responses,
                                  [r |-> r, op |-> th[r].op, data |-> th[r].data,
                                   status |-> out.status, body |-> out.body])]

\* create_hero_content: existing_hero = await get_all_documents(...)
H_Find(r) ==
    /\ Arrives(r)
    /\ \E hero_data \in {[title |-> "A"], [title |-> "B"]},
          existing \in get_all_documents(store, "hero_content", [is_active |-> TRUE],
                                         "order", 1, 1000) :
        th' = [th EXCEPT ![r] = [op |-> "create_hero_content", pc |-> "deactivate",
                                 n |-> @.n + 1, data |-> hero_data,
                                 existing |-> existing, i |-> 1]]
    /\ UNCHANGED <<store, last>>
    /\ ReqFrame

\* create_hero_content: one turn of the loop over existing_hero
H_Update(r) ==
    /\ th[r].op = "create_hero_content" /\ th[r].pc = "deactivate"
    /\ th[r].i <= Len(th[r].existing)
    /\ store' = update_document(store, "hero_content", th[r].existing[th[r].i].id,
                                [is_active |-> FALSE]).st
    /\ th' = [th EXCEPT ![r].i = @ + 1]
    /\ UNCHANGED last
    /\ ReqFrame

\* create_hero_content: the insert after the loop, and the response
H_Create(r) ==
    /\ th[r].op = "create_hero_content" /\ th[r].pc = "deactivate"
    /\ th[r].i > Len(th[r].existing)
    /\ LET created == create_document(store, "hero_content", ContentBase(store, th[r].data))
       IN  /\ store' = created.st
           /\ Responds(r, Ok(created.st, "Hero content created successfully", created.ret, <<>>))
    /\ th' = [th EXCEPT ![r].pc = "done"]
    /\ ReqFrame

\* newsletter_signup: the lookup of the email, and the response when a
\* record has it
N_Find(r) ==
    /\ Arrives(r)
    /\ \E signup_data \in {[email |-> "a@x.io"], [email |-> "b@x.io"]} :
       \E existing_signup \in get_all_documents(store, "newsletter_signups",
                                                [email |-> signup_data.email], "order", 1, 1000) :
        /\ th' = [th EXCEPT ![r] = [op |-> "newsletter_signup",
                                    pc |-> IF existing_signup # <<>> THEN "done" ELSE "insert",
                                    n |-> @.n + 1, data |-> signup_data,
                                    existing |-> existing_signup, i |-> 0]]
        /\ IF existing_signup # <<>>
           THEN last' = [op |-> "newsletter_signup",
                         responses |-> Append(last.responses,
                            [r |-> r, op |-> "newsletter_signup", data |-> signup_data,
                             status |-> 200,
                             body |-> [success |-> FALSE,
                                       message |-> "Email already subscribed to newsletter"]])]
           ELSE UNCHANGED last
    /\ UNCHANGED store
    /\ ReqFrame

\* newsletter_signup: the insert, which the unique index on email refuses
\* when a record has the email, and the response
N_Create(r) ==
    /\ th[r].op = "newsletter_signup" /\ th[r].pc = "insert"
    /\ LET duplicate == \E i \in 1..Len(store["newsletter_signups"]) :
                            store["newsletter_signups"][i].email = th[r].data.email
           created == create_document(store, "newsletter_signups",
                                      ContentBase(store, th[r].data))
       IN  IF duplicate
           THEN /\ UNCHANGED store
                /\ Responds(r, InternalError(store, <<>>))
           ELSE /\ store' = created.st
                /\ Responds(r, Ok(created.st, "Successfully subscribed to newsletter",
                                  created.ret, <<>>))
    /\ th' = [th EXCEPT ![r].pc = "done"]
    /\ ReqFrame

ReqNext ==
    \E r \in Requests : H_Find(r) \/ H_Update(r) \/ H_Create(r) \/ N_Find(r) \/ N_Create(r)

ReqSpec == ReqInit /\ [][ReqNext]_vars

\* no handler is between two of its steps
AllResponded == \A r \in Requests : th[r].pc \in {"idle", "done"}

\* C28: once every create_hero_content request has completed, at most one
\* document of hero_content has is_active true, also when requests ran
\* concurrently.
C28_OneActiveHero ==
    AllResponded =>
        Len(SelectSeq(store["hero_content"], LAMBDA doc : doc.is_active)) <= 1

\* C30: under every interleaving of signup requests the store holds at most
\* one record per email; of the completed requests with one email exactly
\* one returned success=true, and every other returned success=false with
\* the message "Email already subscribed to newsletter", not an error.
C30_OneSignup ==
    AllResponded =>
        \A email \in {"a@x.io", "b@x.io"} :
            LET records == SelectSeq(store["newsletter_signups"], LAMBDA doc : doc.email = email)
                asked == SelectSeq(last.responses,
                                   LAMBDA x : x.op = "newsletter_signup" /\ x.data.email = email)
                created == SelectSeq(asked, LAMBDA x : x.status = 200 /\ x.body.success)
                refused == SelectSeq(asked, LAMBDA x :
                                /\ x.status = 200 /\ ~x.body.success
                                /\ x.body.message = "Email already subscribed to newsletter")
            IN  /\ Len(records) <= 1
                /\ asked # <<>> => Len(created) = 1
                /\ Len(created) + Len(refused) = Len(asked)

====
